---- MODULE Spec2Model ----
(***************************************************************************)
(* A model of the partial-pattern-tree package: a generalized suffix trie  *)
(* whose edges are literal characters or start-anchored regular            *)
(* expressions.  Strings are sequences of one-character strings.  A Map or *)
(* an AutoCollisionMap is a sequence of entries in insertion order, which  *)
(* is the order in which JavaScript iterates them.                          *)
(***************************************************************************)
EXTENDS Integers, Sequences, FiniteSets, TLC

\* ------------------------------------------------------------------ bounds

\* Atomic tokens inserted into one tree, over all of its sequences.
MaxTokens == 3
\* Characters in a query.
MaxQueryLen == 2
\* Pairs handed to one addSequences or constructor call.
MaxBatch == 2

\* Characters of literal tokens and of queries.
Chars == {"a", "b"}
\* The values the sequences are mapped to.
Values == {"v1", "v2"}

\* ------------------------------------------------------------------ tokens

\* A string token: type Token = RegExp | string.
Str(text) == [kind |-> "str", text |-> text]
\* A RegExp token; text holds RegExp.source.
Re(source) == [kind |-> "re", text |-> source]

\* The regular expressions of the model: /^a+/, /^a*/ and the unanchored /a+/.
RegExps == { Re(<<"^", "a", "+">>), Re(<<"^", "a", "*">>), Re(<<"a", "+">>) }

Min(x, y) == IF x <= y THEN x ELSE y

\* Math.min's neutral element, the default cost of a value not yet recorded.
Infinity == 1000000

\* String.prototype.slice(from).
Slice(s, from) == SubSeq(s, from + 1, Len(s))
\* String.prototype.slice(0, to).
SliceTo(s, to) == SubSeq(s, 1, Min(to, Len(s)))
\* String.prototype.startsWith.
StartsWith(s, prefix) ==
    /\ Len(prefix) <= Len(s)
    /\ SubSeq(s, 1, Len(prefix)) = prefix

\* The result of RegExp.exec that found nothing.
NoMatch == -1

\* How many characters equal to atom the text holds from (0-based) position p on.
RECURSIVE RunLength(_, _, _)
RunLength(atom, text, p) ==
    IF p < Len(text) /\ text[p + 1] = atom
    THEN 1 + RunLength(atom, text, p + 1)
    ELSE 0

\* The length of the match of body (an atom and an optional greedy quantifier)
\* at position p of text, or NoMatch.
MatchAt(body, text, p) ==
    LET run == RunLength(body[1], text, p)
        quant == IF Len(body) >= 2 THEN body[2] ELSE ""
    IN  IF quant = "*" THEN run
        ELSE IF run = 0 THEN NoMatch
        ELSE IF quant = "+" THEN run
        ELSE 1

\* RegExp.exec(text): match[0].length of the leftmost match, or NoMatch.  A
\* source that begins with "^" matches at position 0 only.
Exec(token, text) ==
    IF StartsWith(token.text, <<"^">>)
    THEN MatchAt(Tail(token.text), text, 0)
    ELSE LET hits == {p \in 0..Len(text) : MatchAt(token.text, text, p) # NoMatch}
         IN  IF hits = {} THEN NoMatch
             ELSE MatchAt(token.text, text, CHOOSE p \in hits : \A r \in hits : p <= r)

\* consume's results: undefined, or the rest of the query.
Undefined == [matched |-> FALSE, rest |-> <<>>]
Remainder(rest) == [matched |-> TRUE, rest |-> rest]

\* consume with a string token that must be whole in the query: the query may
\* not run out inside the token.
consumeWhole(token, query) ==
    IF Len(query) = 0 THEN Remainder(<<>>)
    ELSE IF token.kind = "re"
    THEN LET match == Exec(token, query)
         IN  IF match = NoMatch THEN Undefined
             ELSE Remainder(Slice(query, match))
    ELSE IF StartsWith(query, token.text)
         THEN Remainder(Slice(query, Len(token.text)))
         ELSE Undefined

\* consume(token, query): the query without the partial match of the token.
consume(token, query) ==
    IF Len(query) = 0 THEN Remainder(<<>>)
    ELSE IF token.kind = "re"
    THEN LET match == Exec(token, query)
         IN  IF match = NoMatch THEN Undefined
             ELSE Remainder(Slice(query, match))
    ELSE LET subject == SliceTo(query, Len(token.text))
         IN  IF StartsWith(token.text, subject)
             THEN Remainder(Slice(query, Len(token.text)))
             ELSE Undefined

\* expandSequence's results: the TypeError it throws, or the atomic sequence.
TypeError == [ok |-> FALSE, tokens |-> <<>>]
Expanded(tokens) == [ok |-> TRUE, tokens |-> tokens]

\* [...token]: the characters of a string token, each a token of its own.
Spread(token) == [i \in 1..Len(token.text) |-> Str(<<token.text[i]>>)]

\* expandSequence without the test of the anchor.
RECURSIVE expandUnchecked(_)
expandUnchecked(sequence) ==
    IF Len(sequence) = 0 THEN Expanded(<<>>)
    ELSE LET token == Head(sequence)
             rest == expandUnchecked(Tail(sequence))
         IN  IF token.kind = "str"
             THEN Expanded(Spread(token) \o rest.tokens)
             ELSE Expanded(<<token>> \o rest.tokens)

\* expandSequence(sequence): strings split into characters, anchored regular
\* expressions kept whole, a TypeError for one that is not anchored.
RECURSIVE expandSequence(_)
expandSequence(sequence) ==
    IF Len(sequence) = 0 THEN Expanded(<<>>)
    ELSE LET token == Head(sequence)
             rest == expandSequence(Tail(sequence))
         IN  IF token.kind = "str"
             THEN IF rest.ok THEN Expanded(Spread(token) \o rest.tokens) ELSE TypeError
             ELSE IF StartsWith(token.text, <<"^">>)
             THEN IF rest.ok THEN Expanded(<<token>> \o rest.tokens) ELSE TypeError
             ELSE TypeError

\* -------------------------------------------------------------------- Node

\* new Node(): no branches, no values.
NewNode == [values |-> <<>>, branches |-> <<>>]

\* The AutoCollisionMap's hasher: a string is its own key, a RegExp's key is its
\* source.
hasher(key) == key.text

\* The position of a key in a Map's entries, 0 when the Map does not hold it.
IndexOf(entries, k) ==
    IF \E i \in 1..Len(entries) : entries[i].k = k
    THEN CHOOSE i \in 1..Len(entries) : entries[i].k = k
    ELSE 0

\* Map.get(k) ?? otherwise.
MapGet(entries, k, otherwise) ==
    IF IndexOf(entries, k) = 0 THEN otherwise ELSE entries[IndexOf(entries, k)].v

\* Map.set(k, v): a held key keeps its place, a new one goes last.
MapSet(entries, k, v) ==
    IF IndexOf(entries, k) = 0
    THEN Append(entries, [k |-> k, v |-> v])
    ELSE [entries EXCEPT ![IndexOf(entries, k)].v = v]

\* The position of the branch whose key collides with the token's, or 0.
BranchIndex(branches, token) ==
    IF \E i \in 1..Len(branches) : hasher(branches[i].token) = hasher(token)
    THEN CHOOSE i \in 1..Len(branches) : hasher(branches[i].token) = hasher(token)
    ELSE 0

\* AutoCollisionMap.get(token) of a missing key: the branches with a new Node
\* under the token, last.
Vivify(branches, token) ==
    IF BranchIndex(branches, token) = 0
    THEN Append(branches, [token |-> token, node |-> NewNode])
    ELSE branches

\* AutoCollisionMap.delete at a position.
DeleteAt(branches, i) ==
    SubSeq(branches, 1, i - 1) \o SubSeq(branches, i + 1, Len(branches))

\* AutoCollisionMap.set(token, node).
BranchSet(branches, token, node) ==
    IF BranchIndex(branches, token) = 0
    THEN Append(branches, [token |-> token, node |-> node])
    ELSE [branches EXCEPT ![BranchIndex(branches, token)] =
              [token |-> token, node |-> node]]

\* Node.addSequence(sequence, value, skipped): the node after the merge.
RECURSIVE Node_addSequence(_, _, _, _)

\* Node.addSequence that sets the cost to skipped, whatever the node recorded.
Node_addSequenceOverwrite(node, sequence, value, skipped) ==
    IF Len(sequence) = 0
    THEN [node EXCEPT !.values = MapSet(@, value, skipped)]
    ELSE LET first == Head(sequence)
             rest == Tail(sequence)
             branches == Vivify(node.branches, first)
             victim == BranchIndex(branches, first)
         IN  [node EXCEPT !.branches =
                  [branches EXCEPT ![victim].node =
                       Node_addSequence(branches[victim].node, rest, value, skipped)]]

Node_addSequence(node, sequence, value, skipped) ==
    IF Len(sequence) = 0
    THEN [node EXCEPT !.values =
              MapSet(@, value, Min(MapGet(@, value, Infinity), skipped))]
    ELSE LET first == Head(sequence)
             rest == Tail(sequence)
             branches == Vivify(node.branches, first)
             victim == BranchIndex(branches, first)
         IN  [node EXCEPT !.branches =
                  [branches EXCEPT ![victim].node =
                       Node_addSequence(branches[victim].node, rest, value, skipped)]]

\* The guard of Node.optimize without the test of the values.
SingleBranch(rest) == Len(rest.branches) = 1

\* The guard of Node.optimize: the child has one branch and no values.
Coalescible(rest) == Len(rest.branches) = 1 /\ Len(rest.values) = 0

\* Node.optimize(): the node with its chains of string branches coalesced.  The
\* loop runs over the live entries: a deleted entry's successor comes next, and
\* an entry set during the loop is visited at the end.
RECURSIVE Node_optimize(_), OptimizeLoop(_, _)
OptimizeLoop(branches, i) ==
    IF i > Len(branches) THEN branches
    ELSE LET x == branches[i].token
             rest == Node_optimize(branches[i].node)
             optimized_ == [branches EXCEPT ![i].node = rest]
         IN  IF x.kind # "str" THEN OptimizeLoop(optimized_, i + 1)
             ELSE IF ~Coalescible(rest) THEN OptimizeLoop(optimized_, i + 1)
             ELSE LET y == rest.branches[1].token
                      child == rest.branches[1].node
                  IN  IF y.kind # "str" THEN OptimizeLoop(optimized_, i + 1)
                      ELSE OptimizeLoop(
                               BranchSet(DeleteAt(optimized_, i),
                                         Str(x.text \o y.text), child), i)
Node_optimize(node) == [node EXCEPT !.branches = OptimizeLoop(node.branches, 1)]

\* Node.has(query).
RECURSIVE Node_has(_, _), HasLoop(_, _, _)

\* The loop of a has that tries the next branch when the one it chose fails.
HasLoopSiblings(branches, i, query) ==
    IF i > Len(branches) THEN FALSE
    ELSE LET nextQuery == consume(branches[i].token, query)
         IN  IF ~nextQuery.matched THEN HasLoop(branches, i + 1, query)
             ELSE IF Len(nextQuery.rest) = 0 THEN TRUE
             ELSE \/ Node_has(branches[i].node, nextQuery.rest)
                  \/ HasLoop(branches, i + 1, query)

\* The loop of a has that answers true at the first branch whose token consumes,
\* without the call of branch.has on what is left of the query.
HasLoopHasty(branches, i, query) ==
    IF i > Len(branches) THEN FALSE
    ELSE LET nextQuery == consume(branches[i].token, query)
         IN  IF ~nextQuery.matched THEN HasLoop(branches, i + 1, query)
             ELSE TRUE

HasLoop(branches, i, query) ==
    IF i > Len(branches) THEN FALSE
    ELSE LET nextQuery == consume(branches[i].token, query)
         IN  IF ~nextQuery.matched THEN HasLoop(branches, i + 1, query)
             ELSE IF Len(nextQuery.rest) = 0 THEN TRUE
             ELSE Node_has(branches[i].node, nextQuery.rest)
Node_has(node, query) == HasLoop(node.branches, 1, query)

\* new AutoMap(() => Infinity), the accumulator of a search.
NewAutoMap == <<>>

\* AutoMap.get(k): the map, holding the default under a key it did not hold.
AutoMapGet(ret, k) ==
    IF IndexOf(ret, k) = 0 THEN Append(ret, [k |-> k, v |-> Infinity]) ELSE ret

\* The loop over branch.values: each value is offered with its cost.
RECURSIVE Offer(_, _, _)
Offer(values, j, ret) ==
    IF j > Len(values) THEN ret
    ELSE LET k == values[j].k
             v == values[j].v
             got == AutoMapGet(ret, k)
         IN  Offer(values, j + 1,
                   IF MapGet(got, k, Infinity) > v THEN MapSet(got, k, v) ELSE got)

\* Node._search(query, ret): the accumulator after the walk below the node.
RECURSIVE Node__search(_, _, _), SearchLoop(_, _, _, _)
SearchLoop(branches, i, query, ret) ==
    IF i > Len(branches) THEN ret
    ELSE LET nextQuery == consume(branches[i].token, query)
             branch == branches[i].node
         IN  IF ~nextQuery.matched THEN SearchLoop(branches, i + 1, query, ret)
             ELSE LET below == Node__search(branch, nextQuery.rest, ret)
                  IN  SearchLoop(branches, i + 1, query,
                                 IF nextQuery.rest = <<>>
                                 THEN Offer(branch.values, 1, below)
                                 ELSE below)
Node__search(node, query, ret) == SearchLoop(node.branches, 1, query, ret)

\* Insert under the comparator (kv0, kv1) => kv1[1] - kv0[1].
RECURSIVE InsertDescending(_, _)
InsertDescending(sorted, kv) ==
    IF Len(sorted) = 0 THEN <<kv>>
    ELSE IF kv.v - sorted[Len(sorted)].v <= 0 THEN Append(sorted, kv)
    ELSE Append(InsertDescending(SubSeq(sorted, 1, Len(sorted) - 1), kv),
                sorted[Len(sorted)])

\* Array.prototype.sort with (kv0, kv1) => kv0[1] - kv1[1]: a stable sort by
\* ascending cost.  Insert puts an entry behind the entries that cost no more.
RECURSIVE Insert(_, _)
Insert(sorted, kv) ==
    IF Len(sorted) = 0 THEN <<kv>>
    ELSE IF sorted[Len(sorted)].v - kv.v <= 0 THEN Append(sorted, kv)
    ELSE Append(Insert(SubSeq(sorted, 1, Len(sorted) - 1), kv), sorted[Len(sorted)])

RECURSIVE Sort(_)
Sort(entries) ==
    IF Len(entries) = 0 THEN <<>>
    ELSE Insert(Sort(SubSeq(entries, 1, Len(entries) - 1)), entries[Len(entries)])

\* Node.search(query): the values found, the best match first.
Node_search(node, query) ==
    LET sorted == Sort(Node__search(node, query, NewAutoMap))
    IN  [i \in 1..Len(sorted) |-> sorted[i].k]

\* ------------------------------------------------------- PartialPatternTree

VARIABLES
    phase,      \* "fields": the fields are initialised and the constructor's body
                \* has yet to run; "ready": constructed; "failed": the constructor threw
    root,       \* PartialPatternTree.root
    optimized,  \* PartialPatternTree.optimized
    pairs,      \* history: the [tokens, value] pairs inserted so far, expanded
    called,     \* history: the method called last, "" before the first call
    anchored,   \* history: no regular expression handed to the last call lacked "^"
    threw,      \* what the last call threw: "none", "TypeError" or "Error"
    searched,   \* the result of the last search, <<[query, result]>>, kept while
                \* only has calls of the same query follow it; else <<>>
    probed,     \* the last call when it was a has: <<[query, result]>>, else <<>>
    given,      \* history: <<pair>>, the pair handed to the last call, when the
                \* call was addSequence; else <<>>
    stack,      \* the calls of Node.has or Node._search in progress, the outermost
                \* first; <<>> when no query runs
    ret         \* the AutoMap the calls of Node._search in progress share

vars == <<phase, root, optimized, pairs, called, anchored, threw, searched, probed,
          given, stack, ret>>

\* SequenceValuePair<T>.
Pair(sequence, value) == [sequence |-> sequence, value |-> value]

\* The strings of n characters.
StringsOf[n \in 0..MaxTokens] ==
    IF n = 0 THEN {<<>>}
    ELSE {Append(s, c) : s \in StringsOf[n - 1], c \in Chars}

\* The sequences of a given weight whose last token is, or is not, a string: a
\* sequence of the model holds no two strings in a row, so that one run of
\* characters is one token.
SequencesOf[w \in 0..MaxTokens, last \in {"str", "re"}] ==
    IF w = 0 THEN IF last = "re" THEN {<<>>} ELSE {}
    ELSE IF last = "re"
    THEN {Append(s, r) : s \in SequencesOf[w - 1, "str"] \cup SequencesOf[w - 1, "re"],
                         r \in RegExps}
    ELSE UNION { {Append(s, Str(t)) : s \in SequencesOf[w - n, "re"], t \in StringsOf[n]} :
                 n \in 1..w }

\* The pairs of a given weight a call may be given.
PairsOf ==
    [w \in 1..MaxTokens |->
        {Pair(s, v) : s \in SequencesOf[w, "str"] \cup SequencesOf[w, "re"], v \in Values}]

\* The lists of n pairs and of a given weight.
BatchesOf[n \in 0..MaxBatch, w \in 0..MaxTokens] ==
    IF n = 0 THEN IF w = 0 THEN {<<>>} ELSE {}
    ELSE UNION { {Append(b, p) : b \in BatchesOf[n - 1, w - u], p \in PairsOf[u]} :
                 u \in 1..w }

\* The lists of pairs, by weight, a call of addSequences or of the constructor
\* may be given.
Batches == [w \in 0..MaxTokens |-> UNION {BatchesOf[n, w] : n \in 0..MaxBatch}]

\* The queries.
QueriesOf[n \in 0..MaxQueryLen] ==
    IF n = 0 THEN {<<>>}
    ELSE QueriesOf[n - 1] \cup
         {Append(s, c) : s \in {t \in QueriesOf[n - 1] : Len(t) = n - 1}, c \in Chars}
Queries == QueriesOf[MaxQueryLen]

\* The atomic tokens inserted so far.
RECURSIVE TokensIn(_)
TokensIn(ps) ==
    IF ps = {} THEN 0
    ELSE LET p == CHOOSE x \in ps : TRUE IN Len(p.tokens) + TokensIn(ps \ {p})
Used == TokensIn(pairs)

Init ==
    /\ phase = "fields"
    /\ root = NewNode
    /\ optimized = FALSE
    /\ pairs = {}
    /\ called = ""
    /\ anchored = TRUE
    /\ threw = "none"
    /\ searched = <<>>
    /\ probed = <<>>
    /\ given = <<>>
    /\ stack = <<>>
    /\ ret = NewAutoMap

\* _addSequence without its loop: the whole sequence is merged, no other tail.
WholeOnly(node, expanded, value, i) ==
    IF Len(expanded) = 0 THEN node
    ELSE Node_addSequence(node, expanded, value, 0)

\* The loop of _addSequence: the tails of the expanded sequence from offset i on,
\* each merged with the number of tokens it skips.
RECURSIVE InsertTails(_, _, _, _)
InsertTails(node, expanded, value, i) ==
    IF i >= Len(expanded) THEN node
    ELSE InsertTails(Node_addSequence(node, Slice(expanded, i), value, i),
                     expanded, value, i + 1)

\* The tokens of a sequence before its first regular expression without "^".
RECURSIVE ValidPrefix(_)
ValidPrefix(sequence) ==
    IF Len(sequence) = 0 THEN <<>>
    ELSE LET token == Head(sequence)
         IN  IF token.kind = "re" /\ ~StartsWith(token.text, <<"^">>) THEN <<>>
             ELSE <<token>> \o ValidPrefix(Tail(sequence))

\* _addSequence that tests a token when it comes to it: the tokens before the
\* one that throws are merged already.
Tree__addSequenceLate(tree, pair) ==
    LET expanded == expandSequence(pair.sequence)
    IN  IF ~expanded.ok
        THEN [root |-> InsertTails(tree.root,
                                   expandSequence(ValidPrefix(pair.sequence)).tokens,
                                   pair.value, 0),
              pairs |-> tree.pairs,
              threw |-> "TypeError"]
        ELSE [root |-> InsertTails(tree.root, expanded.tokens, pair.value, 0),
              pairs |-> tree.pairs \cup {[tokens |-> expanded.tokens, value |-> pair.value]},
              threw |-> "none"]

\* PartialPatternTree._addSequence(pair) on a tree [root, pairs, threw].
Tree__addSequence(tree, pair) ==
    LET expanded == expandSequence(pair.sequence)
    IN  IF ~expanded.ok THEN [tree EXCEPT !.threw = "TypeError"]
        ELSE [root |-> InsertTails(tree.root, expanded.tokens, pair.value, 0),
              pairs |-> tree.pairs \cup {[tokens |-> expanded.tokens, value |-> pair.value]},
              threw |-> "none"]

\* The loop of addSequences: it ends at the first pair that throws.
RECURSIVE Tree_addSequences(_, _)
Tree_addSequences(tree, batch) ==
    IF Len(batch) = 0 THEN tree
    ELSE LET next == Tree__addSequence(tree, Head(batch))
         IN  IF next.threw # "none" THEN next
             ELSE Tree_addSequences(next, Tail(batch))

ThisTree == [root |-> root, pairs |-> pairs, threw |-> "none"]

\* Whether every regular expression of the sequences begins with "^".
Anchored(batch) ==
    \A i \in 1..Len(batch) : \A j \in 1..Len(batch[i].sequence) :
        LET token == batch[i].sequence[j]
        IN  token.kind = "re" => token.text[1] = "^"

\* constructor(pairs?): absent pairs are the empty list here.
Constructor(batch) ==
    /\ phase = "fields"
    /\ stack = <<>>
    /\ LET next == Tree_addSequences(ThisTree, batch)
       IN  /\ root' = next.root
           /\ pairs' = next.pairs
           /\ threw' = next.threw
           /\ phase' = IF next.threw = "none" THEN "ready" ELSE "failed"
    /\ called' = "constructor"
    /\ anchored' = Anchored(batch)
    /\ given' = <<>>
    /\ searched' = <<>>
    /\ probed' = <<>>
    /\ UNCHANGED <<optimized, stack, ret>>

\* addSequence without the test of the optimized flag.
AddSequenceUnguarded(pair) ==
    /\ phase = "ready"
    /\ stack = <<>>
    /\ LET next == Tree__addSequence(ThisTree, pair)
       IN  /\ root' = next.root
           /\ pairs' = next.pairs
           /\ threw' = next.threw
    /\ called' = "addSequence"
    /\ anchored' = Anchored(<<pair>>)
    /\ given' = <<pair>>
    /\ searched' = <<>>
    /\ probed' = <<>>
    /\ UNCHANGED <<phase, optimized, stack, ret>>

\* addSequence(pair).
AddSequence(pair) ==
    /\ phase = "ready"
    /\ stack = <<>>
    /\ IF optimized
       THEN /\ threw' = "Error"
            /\ UNCHANGED <<root, pairs>>
       ELSE LET next == Tree__addSequence(ThisTree, pair)
            IN  /\ root' = next.root
                /\ pairs' = next.pairs
                /\ threw' = next.threw
    /\ called' = "addSequence"
    /\ anchored' = Anchored(<<pair>>)
    /\ given' = <<pair>>
    /\ searched' = <<>>
    /\ probed' = <<>>
    /\ UNCHANGED <<phase, optimized, stack, ret>>

\* addSequences(pairs).
AddSequences(batch) ==
    /\ phase = "ready"
    /\ stack = <<>>
    /\ IF optimized
       THEN /\ threw' = "Error"
            /\ UNCHANGED <<root, pairs>>
       ELSE LET next == Tree_addSequences(ThisTree, batch)
            IN  /\ root' = next.root
                /\ pairs' = next.pairs
                /\ threw' = next.threw
    /\ called' = "addSequences"
    /\ anchored' = Anchored(batch)
    /\ given' = <<>>
    /\ searched' = <<>>
    /\ probed' = <<>>
    /\ UNCHANGED <<phase, optimized, stack, ret>>

\* optimize() without the test of the optimized flag.
OptimizeUnguarded ==
    /\ phase = "ready"
    /\ stack = <<>>
    /\ root' = Node_optimize(root)
    /\ optimized' = TRUE
    /\ threw' = "none"
    /\ called' = "optimize"
    /\ anchored' = TRUE
    /\ given' = <<>>
    /\ searched' = <<>>
    /\ probed' = <<>>
    /\ UNCHANGED <<phase, pairs, stack, ret>>

\* optimize().
Optimize ==
    /\ phase = "ready"
    /\ stack = <<>>
    /\ IF optimized
       THEN /\ threw' = "Error"
            /\ UNCHANGED <<root, optimized>>
       ELSE /\ root' = Node_optimize(root)
            /\ optimized' = TRUE
            /\ threw' = "none"
    /\ called' = "optimize"
    /\ anchored' = TRUE
    /\ given' = <<>>
    /\ searched' = <<>>
    /\ probed' = <<>>
    /\ UNCHANGED <<phase, pairs, stack, ret>>

\* The tree after a query that walks it with branches.get: the branch of the
\* query's first character is created when the node lacks it.
WalkedVivifying(node, query) ==
    IF Len(query) = 0 THEN node
    ELSE [node EXCEPT !.branches = Vivify(@, Str(<<Head(query)>>))]

\* The tree after a query walked it: has and _search read branches.entries()
\* and branch.values and write neither.
Walked(node, query) == node

\* search(query).
Search(query) ==
    /\ phase = "ready"
    /\ stack = <<>>
    /\ root' = Walked(root, query)
    /\ searched' = <<[query |-> query, result |-> Node_search(root, query)]>>
    /\ probed' = <<>>
    /\ called' = "search"
    /\ anchored' = TRUE
    /\ given' = <<>>
    /\ threw' = "none"
    /\ UNCHANGED <<phase, optimized, pairs, stack, ret>>

\* has(query).
Has(query) ==
    /\ phase = "ready"
    /\ stack = <<>>
    /\ root' = Walked(root, query)
    /\ probed' = <<[query |-> query, result |-> Node_has(root, query)]>>
    /\ searched' = IF searched # <<>> /\ searched[1].query = query THEN searched ELSE <<>>
    /\ called' = "has"
    /\ anchored' = TRUE
    /\ given' = <<>>
    /\ threw' = "none"
    /\ UNCHANGED <<phase, optimized, pairs, stack, ret>>

\* A call's sequences hold no more tokens than the bound leaves.
Room == MaxTokens - Used

Next ==
    \/ \E w \in 0..Room : \E batch \in Batches[w] : Constructor(batch)
    \/ \E w \in 1..Room : \E pair \in PairsOf[w] : AddSequence(pair)
    \/ \E w \in 0..Room : \E batch \in Batches[w] : AddSequences(batch)
    \/ Optimize
    \/ \E query \in Queries : Search(query)
    \/ \E query \in Queries : Has(query)

Spec == Init /\ [][Next]_vars

\* ------------------------------------------------ the queries, step by step

\* A call of Node.has or Node._search: the node it runs on, its query and the
\* position of its loop in branches.entries().
Frame(node, query) == [node |-> node, query |-> query, i |-> 1]

\* The frames the engine's call stack holds before a call throws a RangeError:
\* more than the deepest walk of a tree of the model needs.
StackLimit == MaxTokens + 2

\* A callee that runs on the caller's own node.
DescendThis(frame, nextQuery) == Frame(frame.node, nextQuery)

\* branch.has(nextQuery), branch._search(nextQuery, ret): the callee's frame.
Descend(frame, nextQuery) == Frame(frame.node.branches[frame.i].node, nextQuery)

\* The loop's next entry.
Continue(frame) == [frame EXCEPT !.i = @ + 1]

Top == stack[Len(stack)]
Callers == SubSeq(stack, 1, Len(stack) - 1)

\* The call stack is full: the call throws, through every caller.
RangeError ==
    /\ stack' = <<>>
    /\ threw' = "RangeError"
    /\ UNCHANGED <<ret, searched, probed>>

\* search(query) is called: Node.search calls this._search(query).
BeginSearch(query) ==
    /\ phase = "ready"
    /\ stack = <<>>
    /\ stack' = <<Frame(root, query)>>
    /\ ret' = NewAutoMap
    /\ called' = "search"
    /\ anchored' = TRUE
    /\ given' = <<>>
    /\ threw' = "none"
    /\ searched' = <<>>
    /\ probed' = <<>>
    /\ UNCHANGED <<phase, root, optimized, pairs>>

\* One step of the innermost Node._search: its loop is over and it returns (to
\* its caller, which offers the branch's values when nothing of the query was
\* left over, or to Node.search, which sorts), or its loop meets an entry and
\* skips it or calls branch._search.
SearchStep ==
    /\ called = "search"
    /\ stack # <<>>
    /\ IF Top.i > Len(Top.node.branches)
       THEN IF Len(stack) = 1
            THEN LET sorted == Sort(ret)
                 IN  /\ searched' = <<[query |-> Top.query,
                                       result |-> [i \in 1..Len(sorted) |-> sorted[i].k]]>>
                     /\ stack' = <<>>
                     /\ UNCHANGED <<ret, threw, probed>>
            ELSE LET caller == stack[Len(stack) - 1]
                     branch == caller.node.branches[caller.i].node
                 IN  /\ ret' = IF Top.query = <<>> THEN Offer(branch.values, 1, ret) ELSE ret
                     /\ stack' = Append(SubSeq(stack, 1, Len(stack) - 2), Continue(caller))
                     /\ UNCHANGED <<threw, searched, probed>>
       ELSE LET nextQuery == consume(Top.node.branches[Top.i].token, Top.query)
            IN  IF ~nextQuery.matched
                THEN /\ stack' = Append(Callers, Continue(Top))
                     /\ UNCHANGED <<ret, threw, searched, probed>>
                ELSE IF Len(stack) >= StackLimit THEN RangeError
                ELSE /\ stack' = Append(stack, Descend(Top, nextQuery.rest))
                     /\ UNCHANGED <<ret, threw, searched, probed>>
    /\ UNCHANGED <<phase, root, optimized, pairs, called, anchored, given>>

\* has(query) is called: this.root.has(query).
BeginHas(query) ==
    /\ phase = "ready"
    /\ stack = <<>>
    /\ stack' = <<Frame(root, query)>>
    /\ ret' = NewAutoMap
    /\ called' = "has"
    /\ anchored' = TRUE
    /\ given' = <<>>
    /\ threw' = "none"
    /\ searched' = <<>>
    /\ probed' = <<>>
    /\ UNCHANGED <<phase, root, optimized, pairs>>

\* The innermost Node.has returns: each caller returns what the call it made
\* returned, so the result is has(query)'s.
Return(result) ==
    /\ probed' = <<[query |-> stack[1].query, result |-> result]>>
    /\ stack' = <<>>
    /\ UNCHANGED <<ret, threw, searched>>

\* One step of the innermost Node.has: its loop is over and it returns false,
\* or its loop meets an entry and skips it, returns true or calls branch.has.
HasStep ==
    /\ called = "has"
    /\ stack # <<>>
    /\ IF Top.i > Len(Top.node.branches) THEN Return(FALSE)
       ELSE LET nextQuery == consume(Top.node.branches[Top.i].token, Top.query)
            IN  IF ~nextQuery.matched
                THEN /\ stack' = Append(Callers, Continue(Top))
                     /\ UNCHANGED <<ret, threw, searched, probed>>
                ELSE IF Len(nextQuery.rest) = 0 THEN Return(TRUE)
                ELSE IF Len(stack) >= StackLimit THEN RangeError
                ELSE /\ stack' = Append(stack, Descend(Top, nextQuery.rest))
                     /\ UNCHANGED <<ret, threw, searched, probed>>
    /\ UNCHANGED <<phase, root, optimized, pairs, called, anchored, given>>

\* The methods of a tree, with search and has taken step by step.
NextSteps ==
    \/ \E w \in 0..Room : \E batch \in Batches[w] : Constructor(batch)
    \/ \E w \in 1..Room : \E pair \in PairsOf[w] : AddSequence(pair)
    \/ Optimize
    \/ \E query \in Queries : BeginSearch(query)
    \/ SearchStep
    \/ \E query \in Queries : BeginHas(query)
    \/ HasStep

\* The code is synchronous: a call in progress takes its next step.
SpecSteps == Init /\ [][NextSteps]_vars /\ WF_vars(SearchStep) /\ WF_vars(HasStep)

\* ------------------------------------------------------------------ claims

Range(seq) == {seq[i] : i \in 1..Len(seq)}

\* The rest of the query after the tokens have consumed it in turn, or Undefined.
RECURSIVE ConsumeAll(_, _)
ConsumeAll(tokens, query) ==
    IF Len(tokens) = 0 THEN Remainder(query)
    ELSE LET next == consume(Head(tokens), query)
         IN  IF ~next.matched THEN Undefined
             ELSE ConsumeAll(Tail(tokens), next.rest)

\* A prefix of the tail consumes the query exactly.
ConsumedBy(query, tail) ==
    \E j \in 1..Len(tail) :
        ConsumeAll(SubSeq(tail, 1, j), query) = Remainder(<<>>)

\* The offsets of an inserted pair whose tails match the query.
Offsets(pair, query) ==
    {i \in 0..(Len(pair.tokens) - 1) : ConsumedBy(query, Slice(pair.tokens, i))}

\* The offsets at which some sequence mapped to the value matches the query.
OffsetsOf(value, query) ==
    UNION {Offsets(pair, query) : pair \in {p \in pairs : p.value = value}}

\* The cost of a value that matches: its smallest matching offset.
CostOf(value, query) ==
    CHOOSE i \in OffsetsOf(value, query) : \A j \in OffsetsOf(value, query) : i <= j

\* C1: a search returns a value exactly when a tail of a sequence mapped to the
\* value has a prefix that consumes the query, atomic token by atomic token.
C1_SubsequenceLaw ==
    searched # <<>> =>
        \A value \in Values :
            value \in Range(searched[1].result)
                <=> OffsetsOf(value, searched[1].query) # {}

\* A search of an optimized tree that holds a regular expression found one of
\* the two values inserted, with a query of two characters.
C1_Witness ==
    /\ searched # <<>>
    /\ optimized
    /\ Len(searched[1].query) = 2
    /\ Range(searched[1].result) = {"v1"}
    /\ {p.value : p \in pairs} = Values
    /\ \E p \in pairs : \E i \in 1..Len(p.tokens) : p.tokens[i].kind = "re"

\* C2: a search lists distinct values by ascending cost, the cost of a value
\* being its smallest matching offset, and values of equal cost in the order
\* in which the walk met them.
C2_RankingLaw ==
    searched # <<>> =>
        LET query == searched[1].query
            result == searched[1].result
            met == Node__search(root, query, NewAutoMap)
        IN  \A i, j \in 1..Len(result) :
                i < j =>
                    /\ result[i] # result[j]
                    /\ CostOf(result[i], query) <= CostOf(result[j], query)
                    /\ CostOf(result[i], query) = CostOf(result[j], query)
                           => IndexOf(met, result[i]) < IndexOf(met, result[j])

\* A search returned two values, the walk having met the dearer one first.
C2_Witness ==
    /\ searched # <<>>
    /\ Len(searched[1].result) = 2
    /\ CostOf(searched[1].result[1], searched[1].query)
           < CostOf(searched[1].result[2], searched[1].query)
    /\ LET met == Node__search(root, searched[1].query, NewAutoMap)
       IN  IndexOf(met, searched[1].result[2]) < IndexOf(met, searched[1].result[1])

\* The step of the first optimize().
Sealing == ~optimized /\ optimized'

Insertions == {"addSequence", "addSequences"}

\* C4: the tree stays sealed; an insertion into a sealed tree throws and changes
\* nothing; an insertion of anchored sequences into an unsealed tree succeeds.
C4_NoInsertAfterSeal ==
    [][/\ optimized => optimized'
       /\ (optimized /\ called' \in Insertions) =>
              threw' = "Error" /\ root' = root /\ pairs' = pairs
       /\ (~optimized /\ called' \in Insertions /\ anchored') =>
              threw' = "none" /\ ~optimized']_vars

\* A sealed tree refused a sequence that an unsealed one accepts.
C4_Witness ==
    /\ optimized
    /\ called = "addSequence"
    /\ anchored
    /\ threw = "Error"
    /\ pairs # {}

\* No string branch leads to a node without values whose one branch is a string.
RECURSIVE Compressed(_)
Compressed(node) ==
    \A i \in 1..Len(node.branches) :
        LET x == node.branches[i].token
            rest == node.branches[i].node
        IN  /\ Compressed(rest)
            /\ ~ /\ x.kind = "str"
                 /\ Len(rest.branches) = 1
                 /\ Len(rest.values) = 0
                 /\ rest.branches[1].token.kind = "str"

\* C5: the first optimize() compresses and seals the tree; a later one throws
\* and changes nothing.
C5_OptimizeOnce ==
    [][called' = "optimize" =>
           IF optimized
           THEN threw' = "Error" /\ root' = root /\ optimized'
           ELSE threw' = "none" /\ optimized' /\ Compressed(root')]_vars

\* A second optimize() was refused, the first having coalesced a branch.
C5_Witness ==
    /\ called = "optimize"
    /\ threw = "Error"
    /\ optimized
    /\ \E i \in 1..Len(root.branches) : Len(root.branches[i].token.text) >= 2
                                        /\ root.branches[i].token.kind = "str"

Atoms(token) == IF token.kind = "str" THEN Spread(token) ELSE <<token>>

\* The records of the tree below a node: each value with its cost and the atomic
\* tokens that lead to its node.
RECURSIVE Records(_, _)
Records(node, path) ==
    {[path |-> path, value |-> node.values[i].k, cost |-> node.values[i].v] :
         i \in 1..Len(node.values)}
    \cup UNION {Records(node.branches[i].node, path \o Atoms(node.branches[i].token)) :
                    i \in 1..Len(node.branches)}

\* The characters of a sequence of string tokens.
RECURSIVE TextOf(_)
TextOf(tokens) ==
    IF Len(tokens) = 0 THEN <<>> ELSE Head(tokens).text \o TextOf(Tail(tokens))

\* The first sequence is made of characters and is a proper prefix of the second.
Overlap(p, q) ==
    /\ Len(p.tokens) < Len(q.tokens)
    /\ SubSeq(q.tokens, 1, Len(p.tokens)) = p.tokens
    /\ \A i \in 1..Len(p.tokens) : p.tokens[i].kind = "str"

FirstConsuming(branches, query) ==
    IF \E i \in 1..Len(branches) : consume(branches[i].token, query).matched
    THEN CHOOSE i \in 1..Len(branches) :
             /\ consume(branches[i].token, query).matched
             /\ \A j \in 1..(i - 1) : ~consume(branches[j].token, query).matched
    ELSE 0

\* The probe of a single path: the first consuming branch decides.
RECURSIVE Probe(_, _)
Probe(node, query) ==
    LET i == FirstConsuming(node.branches, query)
    IN  IF i = 0 THEN FALSE
        ELSE LET rest == consume(node.branches[i].token, query).rest
             IN  rest = <<>> \/ Probe(node.branches[i].node, rest)

Queried == {"search", "has"}

MatchesEmpty(query) ==
    \E i \in 1..Len(root.branches) :
        /\ root.branches[i].token.kind = "re"
        /\ Exec(root.branches[i].token, query) = 0

\* C10: every search and every has that is called returns, without throwing;
\* no call is left running.
C10_Termination == (stack # <<>>) ~> (stack = <<>> /\ threw = "none")

\* A search of a sealed tree returned a value for a query of which a regular
\* expression at the root matched nothing; the walk went through that branch
\* with the query still whole.
C10_Witness ==
    /\ called = "search"
    /\ stack = <<>>
    /\ threw = "none"
    /\ optimized
    /\ searched # <<>>
    /\ Len(searched[1].query) > 0
    /\ MatchesEmpty(searched[1].query)
    /\ searched[1].result = Node_search(root, searched[1].query)
    /\ Len(searched[1].result) > 0

\* The cost a node records for a value, the node being the one the atomic path
\* leads to; Infinity when it records none.
CostAt(node, path, value) ==
    LET costs == {r.cost : r \in {x \in Records(node, <<>>) :
                                      x.path = path /\ x.value = value}}
    IN  IF costs = {} THEN Infinity ELSE CHOOSE c \in costs : TRUE

\* The tails of an atomic sequence, by offset.
Tails(expanded) == {Slice(expanded, i) : i \in 0..(Len(expanded) - 1)}

\* C11: an insertion removes no record and raises no cost; an addSequence that
\* succeeds sets the value's cost at the node of each tail, of offset i, to the
\* minimum of the cost recorded there and i, and changes no other record.
C11_MonotoneMinimum ==
    [][called' \in Insertions \cup {"constructor"} =>
           /\ \A r \in Records(root, <<>>) : CostAt(root', r.path, r.value) <= r.cost
           /\ (called' = "addSequence" /\ threw' = "none") =>
                  LET value == given'[1].value
                      expanded == expandSequence(given'[1].sequence).tokens
                  IN  /\ \A i \in 0..(Len(expanded) - 1) :
                             CostAt(root', Slice(expanded, i), value)
                                 = Min(CostAt(root, Slice(expanded, i), value), i)
                      /\ \A r \in Records(root', <<>>) :
                             (r.value # value \/ r.path \notin Tails(expanded))
                                 => r \in Records(root, <<>>)]_vars

\* An addSequence reached, with a tail of offset 1 or more, a node that recorded
\* a lower cost for the value, and the lower cost stayed.
C11_Witness ==
    /\ called = "addSequence"
    /\ threw = "none"
    /\ LET value == given[1].value
           expanded == expandSequence(given[1].sequence).tokens
       IN  \E i \in 1..(Len(expanded) - 1) :
               CostAt(root, Slice(expanded, i), value) < i

\* Every node below this one holds a value or has a branch, so that every one
\* has a value in its subtree.
RECURSIVE Populated(_)
Populated(node) ==
    \A i \in 1..Len(node.branches) :
        LET branch == node.branches[i].node
        IN  /\ Len(branch.values) > 0 \/ Len(branch.branches) > 0
            /\ Populated(branch)

\* C12: in every state of the tree, for every query, has(query) = true implies
\* that search(query) is not empty; and every node below the root has a value
\* in its subtree.
C12_NoFalsePositive ==
    /\ Populated(root)
    /\ \A query \in Queries : Node_has(root, query) => Node_search(root, query) # <<>>
    /\ probed # <<>> => probed[1].result = Node_has(root, probed[1].query)

\* has answered true on a sealed tree for a query that ran out inside a
\* coalesced branch, on the path to the only value the search returns.
C12_Witness ==
    /\ probed # <<>>
    /\ probed[1].result
    /\ optimized
    /\ Len(Node_search(root, probed[1].query)) = 1
    /\ \E i \in 1..Len(root.branches) :
           LET token == root.branches[i].token
           IN  /\ token.kind = "str"
               /\ Len(probed[1].query) > 0
               /\ Len(token.text) > Len(probed[1].query)
               /\ StartsWith(token.text, probed[1].query)

\* C13: an addSequence that throws the TypeError leaves the tree as it was:
\* root, the sealed flag, and with them the result of every search and has.
C13_AllOrNothing ==
    [][(called' = "addSequence" /\ threw' = "TypeError") =>
           /\ root' = root
           /\ optimized' = optimized
           /\ pairs' = pairs
           /\ \A query \in Queries :
                  /\ Node_search(root', query) = Node_search(root, query)
                  /\ Node_has(root', query) = Node_has(root, query)]_vars

\* An addSequence into a tree that holds sequences threw the TypeError for a
\* sequence whose first token is valid and a later one not anchored.
C13_Witness ==
    /\ called = "addSequence"
    /\ threw = "TypeError"
    /\ pairs # {}
    /\ given # <<>>
    /\ Len(ValidPrefix(given[1].sequence)) >= 1
    /\ Len(ValidPrefix(given[1].sequence)) < Len(given[1].sequence)

====
